---- MODULE Spec2Model ----
(***************************************************************************)
(* A model of app.py, the Streamlit script of the multi-database query     *)
(* tool.  One behaviour is one browser session: a sequence of script runs, *)
(* each triggered by a widget edit, a click on "Connect" or a click on     *)
(* "Get Answer".  Texts are sequences of one-character strings, so that    *)
(* int(), str.strip, str.replace and str.startswith are computed the way   *)
(* Python computes them.                                                   *)
(***************************************************************************)
EXTENDS Integers, Sequences, FiniteSets, TLC

VARIABLES
    session_state,  \* st.session_state: a dict, modelled as a function on its keys
    form,           \* the widget values the current run read (lines 18-41)
    calls,          \* the calls the current run made, in order
    outcome,        \* what the current run showed the user
    open_conns,     \* driver connections / clients opened and never closed
    last_ok,        \* history: the form of the most recent successful Connect
    last_ok_state,  \* history: session_state right after that Connect
    response,       \* the generation service's reply (response.text or exception)
    sql_query       \* the value generate_sql returned for it

vars == <<session_state, form, calls, outcome, open_conns, last_ok,
          last_ok_state, response, sql_query>>

-----------------------------------------------------------------------------
(* Python text primitives *)

IsSpace(c) == c \in {" ", "\t", "\n"}

RECURSIVE LStrip(_)
LStrip(s) == IF s # <<>> /\ IsSpace(Head(s)) THEN LStrip(Tail(s)) ELSE s

RECURSIVE RStrip(_)
RStrip(s) ==
    IF s # <<>> /\ IsSpace(s[Len(s)]) THEN RStrip(SubSeq(s, 1, Len(s) - 1)) ELSE s

\* str.strip()
Strip(s) == RStrip(LStrip(s))

\* s.startswith(p)
StartsWith(s, p) == Len(s) >= Len(p) /\ SubSeq(s, 1, Len(p)) = p

\* s.replace(old, ""): the non-overlapping occurrences of old, found left to
\* right, are removed; the rest is copied.
RECURSIVE Remove(_, _)
Remove(s, old) ==
    IF Len(s) < Len(old) THEN s
    ELSE IF SubSeq(s, 1, Len(old)) = old
         THEN Remove(SubSeq(s, Len(old) + 1, Len(s)), old)
         ELSE <<Head(s)>> \o Remove(Tail(s), old)

DigitChars == {"0", "1", "2", "3", "4", "5", "6", "7", "8", "9"}

DigitValue(c) ==
    CASE c = "0" -> 0 [] c = "1" -> 1 [] c = "2" -> 2 [] c = "3" -> 3
      [] c = "4" -> 4 [] c = "5" -> 5 [] c = "6" -> 6 [] c = "7" -> 7
      [] c = "8" -> 8 [] c = "9" -> 9

\* The digits of an integer literal: digits, with single underscores allowed
\* between two digits.
IsIntBody(b) ==
    /\ b # <<>>
    /\ \A i \in 1..Len(b) : b[i] \in DigitChars \cup {"_"}
    /\ b[1] \in DigitChars
    /\ b[Len(b)] \in DigitChars
    /\ \A i \in 1..(Len(b) - 1) : ~(b[i] = "_" /\ b[i + 1] = "_")

RECURSIVE IntBodyValue(_, _)
IntBodyValue(b, acc) ==
    IF b = <<>> THEN acc
    ELSE IF Head(b) = "_" THEN IntBodyValue(Tail(b), acc)
         ELSE IntBodyValue(Tail(b), 10 * acc + DigitValue(Head(b)))

\* int(text): surrounding whitespace is dropped, one sign is allowed; anything
\* else raises ValueError.
PyInt(text) ==
    LET s == Strip(text)
        signed == s # <<>> /\ Head(s) \in {"+", "-"}
        b == IF signed THEN Tail(s) ELSE s
    IN  IF IsIntBody(b)
        THEN [ok |-> TRUE,
              value |-> IF signed /\ Head(s) = "-"
                        THEN 0 - IntBodyValue(b, 0) ELSE IntBodyValue(b, 0)]
        ELSE [ok |-> FALSE, value |-> 0]

-----------------------------------------------------------------------------
(* generate_sql (lines 50-67) *)

\* The grave accent (U+0060); the character itself cannot be written inside
\* a string literal of this language, so the model names it.
Backtick == "BACKTICK"
Fence == <<Backtick, Backtick, Backtick>>
FenceSql == Fence \o <<"s", "q", "l">>
ErrorWord == <<"E", "r", "r", "o", "r">>
\* "Error generating SQL: "
ErrorGenerating ==
    ErrorWord \o <<" ", "g", "e", "n", "e", "r", "a", "t", "i", "n", "g", " ",
                   "S", "Q", "L", ":", " ">>

\* line 64
SanitizeMutKeepFence(text) == Strip(Remove(Strip(text), FenceSql))
Sanitize(text) == Strip(Remove(Remove(Strip(text), FenceSql), Fence))

\* A reply of the generation service: response.text, or an exception whose
\* str() is msg.
TextReply(t) == [raises |-> FALSE, text |-> t]
RaiseReply(m) == [raises |-> TRUE, text |-> m]

generate_sqlMutPrefix(reply) ==
    IF reply.raises THEN <<"S", "Q", "L", " ", "e", "r", "r", "o", "r", ":", " ">>
                         \o reply.text
    ELSE Sanitize(reply.text)

generate_sql(reply) ==
    IF reply.raises THEN ErrorGenerating \o reply.text
    ELSE Sanitize(reply.text)

-----------------------------------------------------------------------------
(* The form (lines 18-41) *)

\* line 18
DbTypes == {"PostgreSQL", "MongoDB", "MySQL", "MSSQL"}

default_portsMutSwapped(t) ==
    CASE t = "PostgreSQL" -> <<"5", "4", "3", "2">>
      [] t = "MongoDB" -> <<"2", "7", "0", "1", "7">>
      [] t = "MySQL" -> <<"1", "4", "3", "3">>
      [] t = "MSSQL" -> <<"3", "3", "0", "6">>

\* lines 26-31: the defaults are texts
default_ports(t) ==
    CASE t = "PostgreSQL" -> <<"5", "4", "3", "2">>
      [] t = "MongoDB" -> <<"2", "7", "0", "1", "7">>
      [] t = "MySQL" -> <<"3", "3", "0", "6">>
      [] t = "MSSQL" -> <<"1", "4", "3", "3">>

\* What the Port field can hold: nothing, a number (the one the first run
\* shows), a word, a blank.
PortTexts == {<<>>, <<"5", "4", "3", "2">>, <<"a", "b", "c">>, <<" ">>}

\* Host, Database Name, Username, Password as typed
Profiles ==
    {[host |-> "localhost", database |-> "", user |-> "", password |-> ""],
     [host |-> "db2", database |-> "prod", user |-> "v", password |-> "q"]}

\* Python's None
None == "None"

\* lines 39-41: the Collection Name field exists only while MongoDB is selected
CollectionTexts(t) == IF t = "MongoDB" THEN {"", "orders"} ELSE {None}

Forms ==
    {[db_type |-> t, host |-> p.host, port |-> pt, database |-> p.database,
      user |-> p.user, password |-> p.password, collection_name |-> c] :
        t \in DbTypes, p \in Profiles, pt \in PortTexts,
        c \in {"", "orders", None}}

ValidForm(f) == f \in Forms /\ f.collection_name \in CollectionTexts(f.db_type)

-----------------------------------------------------------------------------
(* What a run shows, and what it calls *)

NoResult == [none |-> TRUE]

Outcome(op, kind, error, text, surfaced, result) ==
    [op |-> op, kind |-> kind, error |-> error, text |-> text,
     surfaced |-> surfaced, result |-> result]

Idle == Outcome("None", "None", "", <<>>, FALSE, NoResult)

\* A connection record passed as keyword arguments: connect(**db_config)
Kwargs(fn, db_config) ==
    [k \in DOMAIN db_config \cup {"fn"} |->
        IF k = "fn" THEN fn ELSE db_config[k]]

\* lines 86-92 and 130-136: pymssql.connect(server=..., port=int(db_config.get("port", 1433)))
MssqlArgs(db_config) ==
    [fn |-> "pymssql.connect", server |-> db_config["host"],
     user |-> db_config["user"], password |-> db_config["password"],
     database |-> db_config["database"],
     port |-> IF "port" \in DOMAIN db_config THEN db_config["port"] ELSE 1433]

RelationalConnectCall(db_type, db_config) ==
    CASE db_type = "PostgreSQL" -> Kwargs("psycopg2.connect", db_config)
      [] db_type = "MySQL" -> Kwargs("mysql.connector.connect", db_config)
      [] db_type = "MSSQL" -> MssqlArgs(db_config)

MongoClientCall(host, port) ==
    [fn |-> "pymongo.MongoClient", host |-> host, port |-> port]

-----------------------------------------------------------------------------
(* The Connect handler (lines 109-152) *)

\* What the drivers can do during the probe: succeed, fail to connect, or
\* (MongoDB) connect and fail the ping.
ProbeFaults(db_type) ==
    IF db_type = "MongoDB" THEN {"none", "connect", "command"}
    ELSE {"none", "connect"}

\* line 111
use_port(f) == IF f.port # <<>> THEN f.port ELSE default_ports(f.db_type)

\* lines 112-122, given that int(use_port) returned
BuildConfig(f) ==
    LET base == [host |-> f.host, database |-> f.database, user |-> f.user,
                 password |-> f.password]
    IN  IF use_port(f) # <<>>
        THEN [k \in DOMAIN base \cup {"port"} |->
                 IF k = "port" THEN PyInt(use_port(f)).value ELSE base[k]]
        ELSE base

WriteSessionMutKeepCollection(ss, f, db_config) ==
    LET keys == DOMAIN ss \cup {"db_type", "db_config"}
                \cup (IF f.db_type = "MongoDB" THEN {"collection_name"} ELSE {})
    IN  [k \in keys |->
            CASE k = "db_type" -> f.db_type
              [] k = "db_config" -> db_config
              [] k = "collection_name" ->
                    IF k \in DOMAIN ss THEN ss[k] ELSE f.collection_name
              [] OTHER -> ss[k]]

\* lines 146-149
WriteSession(ss, f, db_config) ==
    LET keys == DOMAIN ss \cup {"db_type", "db_config"}
                \cup (IF f.db_type = "MongoDB" THEN {"collection_name"} ELSE {})
    IN  [k \in keys |->
            CASE k = "db_type" -> f.db_type
              [] k = "db_config" -> db_config
              [] k = "collection_name" ->
                    IF f.db_type = "MongoDB" THEN f.collection_name ELSE ss[k]
              [] OTHER -> ss[k]]

\* lines 124-143: the calls the probe makes and the connections it leaves open
Probe(f, db_config, fault) ==
    IF f.db_type = "MongoDB"
    THEN [calls |-> <<MongoClientCall(f.host, PyInt(use_port(f)).value)>>
                    \o (IF fault = "connect" THEN <<>>
                        ELSE <<[fn |-> "command", database |-> f.database,
                                command |-> "ping"]>>),
          \* the client is never closed
          opened |-> IF fault = "connect" THEN 0 ELSE 1,
          raised |-> fault # "none"]
    ELSE [calls |-> <<RelationalConnectCall(f.db_type, db_config)>>
                    \o (IF fault = "connect" THEN <<>> ELSE <<[fn |-> "close"]>>),
          opened |-> 0,
          raised |-> fault # "none"]

ConnectHandlerMutEarlyWrite(ss, f, fault) ==
    IF use_port(f) # <<>> /\ ~PyInt(use_port(f)).ok
    THEN [session_state |-> ss, calls |-> <<>>, opened |-> 0,
          outcome |-> Outcome("Connect", "Uncaught", "ValueError", <<>>, FALSE,
                              NoResult)]
    ELSE LET db_config == BuildConfig(f)
             p == Probe(f, db_config, fault)
         IN  [session_state |-> WriteSession(ss, f, db_config),
              calls |-> p.calls, opened |-> p.opened,
              outcome |->
                  IF p.raised
                  THEN Outcome("Connect", "ConnectionError", fault, <<>>, FALSE,
                               NoResult)
                  ELSE Outcome("Connect", "Connected", "", <<>>, FALSE,
                               NoResult)]

ConnectHandler(ss, f, fault) ==
    IF use_port(f) # <<>> /\ ~PyInt(use_port(f)).ok
    THEN \* line 114 raises ValueError outside the try: the run ends there
         [session_state |-> ss, calls |-> <<>>, opened |-> 0,
          outcome |-> Outcome("Connect", "Uncaught", "ValueError", <<>>, FALSE,
                              NoResult)]
    ELSE LET db_config == BuildConfig(f)
             p == Probe(f, db_config, fault)
         IN  IF p.raised
             THEN [session_state |-> ss, calls |-> p.calls, opened |-> p.opened,
                   outcome |-> Outcome("Connect", "ConnectionError", fault, <<>>,
                                       FALSE, NoResult)]
             ELSE [session_state |-> WriteSession(ss, f, db_config),
                   calls |-> p.calls, opened |-> p.opened,
                   outcome |-> Outcome("Connect", "Connected", "", <<>>, FALSE,
                                       NoResult)]

-----------------------------------------------------------------------------
(* The driver adapters (lines 69-106) *)

\* What the backend can do to a query: answer, refuse the connection, or
\* fail after the connection is open (in cursor(), execute(), fetchall() or
\* find()).
ExecFaults == {"none", "connect", "execute"}

\* Rows a relational backend can answer with
Tables ==
    <<[columns |-> <<"id">>, data |-> <<<<1>>, <<2>>>>],
      [columns |-> <<"id", "name">>, data |-> <<>>]>>

\* Documents a collection can hold (the projection excludes _id)
DocSets == <<(<<[name |-> "a"]>>), <<>>>>

\* lines 79-106
execute_sql_query(query, db_type, db_config, fault, table) ==
    IF db_type \notin {"PostgreSQL", "MySQL", "MSSQL"}
    THEN [result |-> [error |-> "Invalid database type"], calls |-> <<>>,
          opened |-> 0]
    ELSE LET connect == <<RelationalConnectCall(db_type, db_config)>>
             run == <<[fn |-> "cursor.execute", sql |-> query]>>
         IN  CASE fault = "connect" ->
                    [result |-> [error |-> fault], calls |-> connect,
                     opened |-> 0]
               [] fault = "execute" ->
                    \* the except clause returns without conn.close()
                    [result |-> [error |-> fault], calls |-> connect \o run,
                     opened |-> 1]
               [] OTHER ->
                    [result |-> [columns |-> table.columns, data |-> table.data],
                     calls |-> connect \o run \o <<[fn |-> "close"]>>,
                     opened |-> 0]

\* lines 69-77
execute_mongo_query(coll_name, db_config, fault, docs) ==
    IF "port" \notin DOMAIN db_config
    THEN [result |-> [error |-> "KeyError"], calls |-> <<>>, opened |-> 0]
    ELSE LET client == <<MongoClientCall(db_config["host"], db_config["port"])>>
             find == <<[fn |-> "find", database |-> db_config["database"],
                        collection |-> coll_name]>>
         IN  CASE fault = "connect" ->
                    [result |-> [error |-> fault], calls |-> client,
                     opened |-> 0]
               [] fault = "execute" ->
                    [result |-> [error |-> fault], calls |-> client \o find,
                     opened |-> 1]
               [] OTHER ->
                    \* the client is never closed
                    [result |-> [data |-> docs], calls |-> client \o find,
                     opened |-> 1]

-----------------------------------------------------------------------------
(* Query processing (lines 154-192) *)

NoReply == [none |-> TRUE]
NoSql == <<None>>

\* line 166: not coll_name
FalsyMutNoneOnly(v) == v = None
Falsy(v) == v \in {"", None}

\* What the generation service can answer in a session
AskReplies ==
    {RaiseReply(<<"q", "u", "o", "t", "a">>),
     TextReply(FenceSql \o <<" ", "S", " ">> \o Fence),
     TextReply(ErrorWord \o <<"s">>),
     TextReply(<<>>)}

Quiet(op, kind) ==
    [calls |-> <<>>, opened |-> 0, response |-> NoReply, sql_query |-> NoSql,
     outcome |-> Outcome(op, kind, "", <<>>, FALSE, NoResult)]

\* lines 160-192: the Get Answer handler
GetAnswer(ss, reply, fault, table, docs) ==
    IF "db_type" \notin DOMAIN ss \/ "db_config" \notin DOMAIN ss
    THEN [Quiet("Ask", "Unexpected") EXCEPT !.outcome.error = "KeyError"]
    ELSE
    LET db_type == ss["db_type"]
        db_config == ss["db_config"]
    IN  IF db_type = "MongoDB"
        THEN LET coll_name == IF "collection_name" \in DOMAIN ss
                              THEN ss["collection_name"] ELSE None
             IN  IF Falsy(coll_name)
                 THEN Quiet("Ask", "MissingCollection")
                 ELSE LET r == execute_mongo_query(coll_name, db_config, fault,
                                                   docs)
                      IN  [calls |-> <<[fn |-> "execute_mongo_query",
                                        collection_name |-> coll_name,
                                        db_config |-> db_config]>> \o r.calls,
                           opened |-> r.opened,
                           response |-> NoReply,
                           sql_query |-> NoSql,
                           outcome |->
                               IF "error" \in DOMAIN r.result
                               THEN Outcome("Ask", "ExecutionError",
                                            r.result["error"], <<>>, FALSE,
                                            NoResult)
                               ELSE Outcome("Ask", "Tabular", "", <<>>, FALSE,
                                            r.result)]
        ELSE LET query == generate_sql(reply)
                 gen == <<[fn |-> "generate_sql", db_type |-> db_type]>>
             IN  IF StartsWith(query, ErrorWord)
                 THEN [calls |-> gen, opened |-> 0, response |-> reply,
                       sql_query |-> query,
                       outcome |-> Outcome("Ask", "GenerationError", "", query,
                                           FALSE, NoResult)]
                 ELSE LET r == execute_sql_query(query, db_type, db_config,
                                                 fault, table)
                      IN  [calls |-> gen
                                     \o <<[fn |-> "execute_sql_query",
                                           sql_query |-> query,
                                           db_type |-> db_type,
                                           db_config |-> db_config]>>
                                     \o r.calls,
                           opened |-> r.opened,
                           response |-> reply,
                           sql_query |-> query,
                           outcome |->
                               IF "error" \in DOMAIN r.result
                               THEN Outcome("Ask", "ExecutionError",
                                            r.result["error"], query, TRUE,
                                            NoResult)
                               ELSE Outcome("Ask", "Tabular", "", query, TRUE,
                                            r.result)]

Step4MutFormFallback(ss, reply, fault, table, docs) ==
    GetAnswer(IF "db_type" \in DOMAIN ss THEN ss
              ELSE [db_type |-> form.db_type,
                    db_config |-> [host |-> form.host, port |-> 0,
                                   database |-> form.database,
                                   user |-> form.user,
                                   password |-> form.password],
                    collection_name |-> form.collection_name],
              reply, fault, table, docs)

\* line 155: the question field and the button exist only in a session that
\* has connected
Step4(ss, reply, fault, table, docs) ==
    IF "db_type" \in DOMAIN ss
    THEN GetAnswer(ss, reply, fault, table, docs)
    ELSE Quiet("Ask", "NotConnected")

-----------------------------------------------------------------------------
(* The session: one action per script run *)

MaxOpen == 2

EmptyDict == [k \in {} |-> None]

\* lines 18-41, first run: the widgets' defaults
InitialForm ==
    [db_type |-> "PostgreSQL", host |-> "localhost",
     port |-> default_ports("PostgreSQL"), database |-> "", user |-> "",
     password |-> "", collection_name |-> None]

Init ==
    /\ session_state = EmptyDict
    /\ form = InitialForm
    /\ calls = <<>>
    /\ outcome = Idle
    /\ open_conns = 0
    /\ last_ok = NoReply
    /\ last_ok_state = EmptyDict
    /\ response = NoReply
    /\ sql_query = NoSql

\* The forms one edit of one widget leads to.  Selecting another database
\* type creates or removes the Collection Name field (lines 39-41).
Edits(f) ==
    {[f EXCEPT !.db_type = t,
               !.collection_name = IF t = "MongoDB" THEN "" ELSE None] :
        t \in DbTypes}
    \cup {[f EXCEPT !.port = pt] : pt \in PortTexts}
    \cup {[f EXCEPT !.host = p.host, !.database = p.database,
                    !.user = p.user, !.password = p.password] : p \in Profiles}
    \cup {[f EXCEPT !.collection_name = c] : c \in CollectionTexts(f.db_type)}

\* The user edits the form; the script reruns with no button pressed.
EditForm ==
    \E f \in Edits(form) \ {form} :
        /\ ValidForm(f)
        /\ form' = f
        /\ calls' = <<>>
        /\ outcome' = Idle
        /\ response' = NoReply
        /\ sql_query' = NoSql
        /\ UNCHANGED <<session_state, open_conns, last_ok, last_ok_state>>

\* The user presses Connect.
Connect ==
    \E fault \in ProbeFaults(form.db_type) :
      \E r \in {ConnectHandler(session_state, form, fault)} :
        /\ open_conns + r.opened <= MaxOpen
        /\ session_state' = r.session_state
        /\ calls' = r.calls
        /\ outcome' = r.outcome
        /\ open_conns' = open_conns + r.opened
        /\ last_ok' = IF r.outcome.kind = "Connected" THEN form ELSE last_ok
        /\ last_ok_state' = IF r.outcome.kind = "Connected"
                            THEN r.session_state ELSE last_ok_state
        /\ response' = NoReply
        /\ sql_query' = NoSql
        /\ UNCHANGED form

\* The backend's behaviour during one question
Backends ==
    {[fault |-> "connect", answer |-> 1], [fault |-> "execute", answer |-> 1]}
    \cup {[fault |-> "none", answer |-> i] : i \in {1, 2}}

\* The user asks a question.
Ask ==
    \E reply \in AskReplies, b \in Backends :
      \E r \in {Step4(session_state, reply, b.fault, Tables[b.answer],
                      DocSets[b.answer])} :
        /\ open_conns + r.opened <= MaxOpen
        /\ calls' = r.calls
        /\ outcome' = r.outcome
        /\ open_conns' = open_conns + r.opened
        /\ response' = r.response
        /\ sql_query' = r.sql_query
        /\ UNCHANGED <<session_state, form, last_ok, last_ok_state>>

Next == EditForm \/ Connect \/ Ask

Spec == Init /\ [][Next]_vars

-----------------------------------------------------------------------------
(* generate_sql on its own, over every reply built from a few pieces *)

MaxPieces == 7

Pieces == {<<Backtick>>, <<"s", "q", "l">>, <<"s">>, <<" ">>}

RECURSIVE TextsOf(_)
TextsOf(n) ==
    IF n = 0 THEN {<<>>}
    ELSE LET shorter == TextsOf(n - 1)
         IN  shorter \cup {t \o p : t \in shorter, p \in Pieces}

GenReplies ==
    {TextReply(t) : t \in TextsOf(MaxPieces)}
    \cup {RaiseReply(Fence \o <<"s">>)}

InitGen ==
    /\ response \in GenReplies
    /\ sql_query = NoSql
    /\ session_state = EmptyDict
    /\ form = InitialForm
    /\ calls = <<>>
    /\ outcome = Idle
    /\ open_conns = 0
    /\ last_ok = NoReply
    /\ last_ok_state = EmptyDict

Generate ==
    /\ sql_query = NoSql
    /\ sql_query' = generate_sql(response)
    /\ UNCHANGED <<session_state, form, calls, outcome, open_conns, last_ok,
                   last_ok_state, response>>

NextGen == Generate

SpecGen == InitGen /\ [][NextGen]_vars

-----------------------------------------------------------------------------
(* Properties *)

\* old in s
RECURSIVE Contains(_, _)
Contains(s, old) ==
    /\ Len(s) >= Len(old)
    /\ \/ SubSeq(s, 1, Len(old)) = old
       \/ Contains(Tail(s), old)

Connected == "db_type" \in DOMAIN session_state

EverConnected == last_ok # NoReply

FnsCalled == {calls[i].fn : i \in 1..Len(calls)}

CallsTo(fn) == {i \in 1..Len(calls) : calls[i].fn = fn}

QueryFns ==
    {"generate_sql", "execute_sql_query", "execute_mongo_query",
     "cursor.execute", "find"}

\* The connection profile a form stands for, with the port as the integer
\* the Port text (or the type's default text) denotes
ProfileOf(f) ==
    [host |-> f.host, port |-> PyInt(use_port(f)).value,
     database |-> f.database, user |-> f.user, password |-> f.password]

\* C1: after a Connect whose probe raised, a session that had connected is
\* still connected, and its backend kind, profile and collection name are
\* those the last successful Connect stored.
C1_FailedConnectKeepsSession ==
    (outcome.op = "Connect" /\ outcome.kind = "ConnectionError" /\ EverConnected)
    => /\ Connected
       /\ session_state = last_ok_state
       /\ session_state["db_type"] = last_ok.db_type
       /\ session_state["db_config"] = ProfileOf(last_ok)

C1_Witness ==
    /\ outcome.op = "Connect" /\ outcome.kind = "ConnectionError"
    /\ EverConnected
    /\ form.db_type # last_ok.db_type
    /\ form.host # last_ok.host
    /\ form.port # last_ok.port

\* C2: while no Session State exists, a run makes no call to the query
\* generator or to a driver adapter's query functions, an Ask included.
C2_NoQueryCallsWhenDisconnected ==
    ~Connected => FnsCalled \cap QueryFns = {}

C2_Witness == ~Connected /\ outcome.op = "Ask"

\* C3: an Ask whose generation call raised never reaches execute_sql_query
\* (nor a driver), and shows the generation error.
C3_GenerationFailureNotExecuted ==
    (outcome.op = "Ask" /\ response # NoReply /\ response.raises)
    => /\ FnsCalled = {"generate_sql"}
       /\ outcome.kind = "GenerationError"
       /\ outcome.text = ErrorGenerating \o response.text
       /\ outcome.result = NoResult

C3_Witness ==
    /\ outcome.op = "Ask" /\ response # NoReply /\ response.raises
    /\ outcome.kind = "GenerationError"

\* C4: once an operation has completed, no connection it opened is still
\* open.
C4_NoConnectionLeftOpen == open_conns = 0

\* C5: a Connect with a non-empty Port text that is no integer is reported by
\* the handler as an error, reaches no driver and leaves Session State alone.
C5_InvalidPortReportedAsError ==
    (outcome.op = "Connect" /\ form.port # <<>> /\ ~PyInt(form.port).ok)
    => /\ outcome.kind \notin {"Uncaught", "Connected"}
       /\ calls = <<>>
       /\ session_state = last_ok_state

\* The documented default ports
DocumentedDefault(t) ==
    CASE t = "PostgreSQL" -> 5432 [] t = "MongoDB" -> 27017
      [] t = "MySQL" -> 3306 [] t = "MSSQL" -> 1433

\* C6: a Connect with an empty Port text passes the kind's documented default
\* port, as an integer, to the driver, and stores it in the session profile.
C6_EmptyPortResolvesToDefault ==
    (outcome.op = "Connect" /\ form.port = <<>>)
    => /\ Len(calls) >= 1
       /\ calls[1].fn \in {"psycopg2.connect", "mysql.connector.connect",
                           "pymssql.connect", "pymongo.MongoClient"}
       /\ calls[1].port = DocumentedDefault(form.db_type)
       /\ outcome.kind = "Connected"
          => session_state["db_config"]["port"] = DocumentedDefault(form.db_type)

C6_Witness ==
    /\ outcome.op = "Connect" /\ outcome.kind = "Connected"
    /\ form.port = <<>> /\ form.db_type = "MSSQL"

\* C7: whatever text the generation service returns, the query generate_sql
\* returns holds no three consecutive backticks.
C7_NoFenceInGeneratedQuery ==
    (response # NoReply /\ ~response.raises /\ sql_query # NoSql)
    => ~Contains(sql_query, Fence)

\* removing the opening fence and its tag brings two runs of backticks together
C7_Witness ==
    /\ response = TextReply(<<Backtick, Backtick>> \o FenceSql \o <<Backtick>>)
    /\ sql_query = <<>>

\* C8: an Ask on a relational backend whose generation call returned a text
\* calls execute_sql_query exactly once, with the sanitized text, shows that
\* text, and ends as execute_sql_query ended.
C8_GeneratedTextAlwaysExecuted ==
    (outcome.op = "Ask" /\ response # NoReply /\ ~response.raises)
    => /\ Cardinality(CallsTo("execute_sql_query")) = 1
       /\ \A i \in CallsTo("execute_sql_query") :
              calls[i].sql_query = Sanitize(response.text)
       /\ outcome.surfaced /\ outcome.text = Sanitize(response.text)
       /\ outcome.kind \in {"Tabular", "ExecutionError"}

\* C9: a Connect to MongoDB with an empty collection name fails only when the
\* port text or the probe does; after it has succeeded, every Ask of the
\* session it set up ends MissingCollection, with no call made.
C9_EmptyCollectionCheckedAtAsk ==
    /\ (outcome.op = "Connect" /\ form.db_type = "MongoDB"
        /\ form.collection_name = "")
       => \/ outcome.kind = "Connected" /\ session_state["collection_name"] = ""
          \/ outcome.kind = "ConnectionError"
             /\ outcome.error \in {"connect", "command"}
          \/ outcome.kind = "Uncaught" /\ ~PyInt(form.port).ok
    /\ (outcome.op = "Ask" /\ EverConnected /\ last_ok.db_type = "MongoDB"
        /\ last_ok.collection_name = "")
       => outcome.kind = "MissingCollection" /\ calls = <<>>

C9_Witness ==
    /\ outcome.op = "Ask" /\ EverConnected
    /\ last_ok.db_type = "MongoDB" /\ last_ok.collection_name = ""
    /\ outcome.kind = "MissingCollection"

\* C10: Session State holds the backend kind and the profile of the most
\* recent successful Connect, and an Ask dispatches on them, not on the form:
\* its calls carry that kind and profile, and for MongoDB the collection name
\* given with that Connect.
C10_AskUsesLastSuccessfulConnect ==
    Connected
    => /\ EverConnected
       /\ session_state["db_type"] = last_ok.db_type
       /\ session_state["db_config"] = ProfileOf(last_ok)
       /\ outcome.op = "Ask"
          => /\ \A i \in CallsTo("generate_sql") :
                    calls[i].db_type = last_ok.db_type
             /\ \A i \in CallsTo("execute_sql_query") :
                    /\ calls[i].db_type = last_ok.db_type
                    /\ calls[i].db_config = ProfileOf(last_ok)
             /\ \A i \in CallsTo("execute_mongo_query") :
                    /\ calls[i].db_config = ProfileOf(last_ok)
                    /\ calls[i].collection_name = last_ok.collection_name
             /\ IF last_ok.db_type = "MongoDB"
                THEN FnsCalled \cap {"generate_sql", "execute_sql_query"} = {}
                ELSE /\ "execute_mongo_query" \notin FnsCalled
                     /\ "generate_sql" \in FnsCalled

\* an answered question on a MongoDB session whose collection was given
\* anew, asked while the form shows another kind and another host
C10_Witness ==
    /\ outcome.op = "Ask" /\ outcome.kind = "Tabular"
    /\ Connected /\ last_ok.db_type = "MongoDB"
    /\ "execute_mongo_query" \in FnsCalled
    /\ form.db_type # "MongoDB" /\ form.host # last_ok.host

====
